---- MODULE Spec2Model ----
(***************************************************************************)
(* State-machine model of the SwitchBot Fan accessory                      *)
(* (src/unnamed/part_000, class Fan): the setters, the debounced push      *)
(* subscription, the cloud and BLE dispatch paths, the refresh paths and   *)
(* the webhook handler.                                                    *)
(*                                                                         *)
(* One step of the model is one run of JavaScript between two real         *)
(* suspension points (a timer, a network or BLE round trip): an async      *)
(* function runs synchronously up to its first pending await, and          *)
(* continuations of already-resolved promises run before any timer or      *)
(* I/O callback.                                                           *)
(***************************************************************************)
EXTENDS Integers, Sequences, FiniteSets, Bags, TLC

(***************************************************************************)
(* Values.  Characteristic values are encoded as integers: the HAP         *)
(* enumerations keep their numeric values, and the JavaScript values the   *)
(* code can store in the same fields get integers of their own, so that    *)
(* the strict comparisons (===, !==) of the code distinguish them.         *)
(***************************************************************************)
ACTIVE == 1
INACTIVE == 0
SWING_ENABLED == 1
SWING_DISABLED == 0
CHARGING == 1
NOT_CHARGING == 0
BATTERY_LEVEL_LOW == 1
BATTERY_LEVEL_NORMAL == 0
\* JavaScript undefined (a field absent from a webhook context)
undefined == -1
\* JavaScript NaN (Number() of a value that is not a number)
NaN == -2
\* JavaScript boolean false, which is !== INACTIVE (0)
JSfalse == -3
\* JavaScript boolean true, which is !== ACTIVE (1)
JStrue == -5
\* the error object apiError writes to the characteristics
ErrorMarker == -4

\* a test of this.Fan.Active that every value passes
TruthyAlways(v) ==
    TRUE

\* JavaScript truthiness of a stored value: if (this.Fan.Active)
Truthy(v) ==
    v \notin {0, undefined, NaN, JSfalse}

(***************************************************************************)
(* Bounds of the model.                                                    *)
(***************************************************************************)
\* dispatches under way plus follow-up refreshes owed when a new burst may begin
MaxPending == 2
\* refreshStatus calls in flight at once
MaxRefresh == 1
\* refreshStatus calls in flight at once where reconciliation runs alone
MaxOverlap == 2
\* attempts retryBLE makes at one command
MaxRetryBLE == 2
\* attempts the device is configured to make at one cloud request
deviceMaxRetries == 2

FanFields == {"Active", "SwingMode", "RotationSpeed"}

\* values the hub hands to the setters
ActiveValues == {INACTIVE, ACTIVE}
SwingValues == {SWING_DISABLED, SWING_ENABLED}
SpeedValues == {100}

(***************************************************************************)
(* Device configuration (device & devicesConfig, platform.config).         *)
(***************************************************************************)
Config(ct, tok, cloud, off, wh) ==
    [deviceType |-> "Fan", connectionType |-> ct, token |-> tok,
     enableCloudService |-> cloud, offline |-> off, webhook |-> wh]

\* the same configuration for a device the platform builds a Motion
\* accessory for
MotionConfig(c) ==
    [c EXCEPT !.deviceType = "Motion"]

\* a cloud device and a BLE device, both with the webhook registered
Configs ==
    { Config("OpenAPI", TRUE, TRUE, FALSE, TRUE),
      Config("BLE", FALSE, TRUE, FALSE, TRUE) }

\* a device that falls back from BLE to the cloud
HybridConfigs ==
    { Config("BLE/OpenAPI", TRUE, TRUE, FALSE, TRUE) }

\* deviceBase: this.BLE, this.OpenAPI
BLE(c) ==
    c.connectionType \in {"BLE", "BLE/OpenAPI"}

OpenAPI(c) ==
    c.connectionType \in {"OpenAPI", "BLE/OpenAPI"}

\* the if-chain of pushChanges
PushRoute(c) ==
    IF ~c.enableCloudService /\ OpenAPI(c) THEN "disabled"
    ELSE IF BLE(c) THEN "ble"
    ELSE IF OpenAPI(c) /\ c.token THEN "cloud"
    ELSE "offline"

\* the if-chain of refreshStatus
RefreshRoute(c) ==
    IF ~c.enableCloudService /\ OpenAPI(c) THEN "disabled"
    ELSE IF BLE(c) THEN "ble"
    ELSE IF OpenAPI(c) /\ c.token THEN "cloud"
    ELSE "offline"

\* a fallback that asked for the credential only
FallbackWithToken(c) ==
    c.token

\* BLEPushConnection / BLERefreshConnection: the cloud fallback is taken
FallbackToCloud(c) ==
    c.token /\ c.connectionType = "BLE/OpenAPI"

\* a test that looked at the HTTP status only
SuccessByHTTPStatus(r) ==
    /\ ~r.threw
    /\ r.statusCode \in {200, 100}

\* the success test applied to every cloud response
Success(r) ==
    /\ ~r.threw
    /\ r.statusCode \in {200, 100}
    /\ r.bodyStatus \in {200, 100}

Response(t, s, b) ==
    [threw |-> t, statusCode |-> s, bodyStatus |-> b]

\* what a POST .../commands can come back with
PushResponses ==
    { Response(FALSE, 200, 100), Response(FALSE, 200, 190), Response(TRUE, 0, 0) }

(***************************************************************************)
(* Payloads the environment can deliver.                                   *)
(***************************************************************************)
StatusBody(p, o, f, c, b) ==
    [power |-> p, oscillation |-> o, fanSpeed |-> f, chargingStatus |-> c, battery |-> b]

\* bodies of GET .../status
StatusBodies ==
    { StatusBody("on", "on", 50, "discharging", 100) }

\* what retryRequest(.../status) can come back with: a response and its body
StatusResponses ==
    { [resp |-> r, body |-> b] :
        r \in {Response(FALSE, 200, 100), Response(FALSE, 200, 190), Response(TRUE, 0, 0)},
        b \in StatusBodies }

WebhookContext(p, o, f, c, b) ==
    [powerState |-> p, oscillation |-> o, fanSpeed |-> f, chargingStatus |-> c, battery |-> b]

\* webhook events; a field the event omits is "absent" (a string) or undefined (a number)
WebhookContexts ==
    { WebhookContext("OFF", "off", 0, "discharging", 100) }

\* the events where the webhook runs against refreshes: also one that turns
\* the fan on at speed 42
ReconcileContexts ==
    WebhookContexts \cup {WebhookContext("ON", "on", 42, "charging", 80)}

\* switchbot.onadvertisement.serviceData as BLERefreshStatus reads it: the
\* property of the handler function the code has just assigned, which no
\* code sets, so the read yields undefined (the empty set here).
Advertisements ==
    { {} }

\* results of platform.connectBLE()
ConnectResults == {"ok", "undefined"}

(***************************************************************************)
(* Pure parts of the handlers.                                             *)
(***************************************************************************)
\* Number(x) of a payload field
Number(x) ==
    IF x = undefined THEN NaN ELSE x

\* a < b in JavaScript, false when a is NaN
JSLess(a, b) ==
    a # NaN /\ a < b

\* BLEparseStatus: the new this.Fan
BLEparseStatus(F, sd) ==
    [F EXCEPT !.Active = IF sd.state = "on" THEN JStrue ELSE JSfalse]

\* openAPIparseStatus: the new this.Fan
openAPIparseStatusFan(F, body) ==
    [Active |-> IF body.power = "on" THEN ACTIVE ELSE INACTIVE,
     SwingMode |-> IF body.oscillation = "on" THEN SWING_ENABLED ELSE SWING_DISABLED,
     RotationSpeed |-> body.fanSpeed]

\* a parse that stored the level and left the low-battery status alone
openAPIparseStatusBatteryLevelOnly(B, body) ==
    LET level == Number(body.battery) IN
    [BatteryLevel |-> IF level = NaN THEN 100 ELSE level,
     StatusLowBattery |-> B.StatusLowBattery,
     ChargingState |-> IF body.chargingStatus = "charging" THEN CHARGING ELSE NOT_CHARGING]

\* openAPIparseStatus: the new this.Battery
openAPIparseStatusBattery(B, body) ==
    LET level == Number(body.battery) IN
    [BatteryLevel |-> IF level = NaN THEN 100 ELSE level,
     StatusLowBattery |-> IF JSLess(level, 10) THEN BATTERY_LEVEL_LOW ELSE BATTERY_LEVEL_NORMAL,
     ChargingState |-> IF body.chargingStatus = "charging" THEN CHARGING ELSE NOT_CHARGING]

\* a handler that took the power and the oscillation of the event only
webhookFanWithoutSpeed(F, ctx) ==
    [Active |-> IF ctx.powerState = "ON" THEN ACTIVE ELSE INACTIVE,
     SwingMode |-> IF ctx.oscillation = "on" THEN SWING_ENABLED ELSE SWING_DISABLED,
     RotationSpeed |-> F.RotationSpeed]

\* the webhook handler: the new this.Fan
webhookFan(F, ctx) ==
    [Active |-> IF ctx.powerState = "ON" THEN ACTIVE ELSE INACTIVE,
     SwingMode |-> IF ctx.oscillation = "on" THEN SWING_ENABLED ELSE SWING_DISABLED,
     RotationSpeed |-> ctx.fanSpeed]

\* the webhook handler: the new this.Battery
webhookBattery(B, ctx) ==
    [B EXCEPT !.ChargingState = IF ctx.chargingStatus = "charging" THEN CHARGING ELSE NOT_CHARGING,
              !.BatteryLevel = ctx.battery]

\* the onGet handler of a characteristic of the Fan service
onGet(F, field) ==
    F[field]

\* updateHomeKitCharacteristics: the new accessory.context
updateContext(F, B, ctx) ==
    [Active |-> IF F.Active = undefined THEN ctx.Active ELSE F.Active,
     RotationSpeed |-> IF F.RotationSpeed = undefined THEN ctx.RotationSpeed ELSE F.RotationSpeed,
     SwingMode |-> IF F.SwingMode = undefined THEN ctx.SwingMode ELSE F.SwingMode,
     BatteryLevel |-> IF B.BatteryLevel = undefined THEN ctx.BatteryLevel ELSE B.BatteryLevel,
     ChargingState |-> IF B.ChargingState = undefined THEN ctx.ChargingState ELSE B.ChargingState,
     StatusLowBattery |-> IF B.StatusLowBattery = undefined THEN ctx.StatusLowBattery
                          ELSE B.StatusLowBattery]

\* updateHomeKitCharacteristics: the new values of the Fan service's characteristics
updateHub(F, h) ==
    [Active |-> IF F.Active = undefined THEN h.Active ELSE F.Active,
     RotationSpeed |-> IF F.RotationSpeed = undefined THEN h.RotationSpeed ELSE F.RotationSpeed,
     SwingMode |-> IF F.SwingMode = undefined THEN h.SwingMode ELSE F.SwingMode]

\* an apiError that marked the Active characteristic only
apiErrorOnActive(h) ==
    [h EXCEPT !.Active = ErrorMarker]

\* apiError: every characteristic of the Fan service is set to the error
apiError(h) ==
    [Active |-> ErrorMarker, RotationSpeed |-> ErrorMarker, SwingMode |-> ErrorMarker]

\* offlineOff
offlineOff(c, h) ==
    IF c.offline
    THEN [Active |-> INACTIVE, RotationSpeed |-> 0, SwingMode |-> SWING_DISABLED]
    ELSE h

(***************************************************************************)
(* The change tests and the commands of the dispatch paths.                *)
(***************************************************************************)
\* openAPIpushChanges and BLEpushChanges: this.Fan.Active !== context.Active
ActiveChanged(F, ctx) ==
    F.Active # ctx.Active

\* pushRotationSpeedChanges: the test compares SwingMode
RotationSpeedChanged(F, ctx) ==
    F.SwingMode # ctx.SwingMode

SwingModeChangedAgainstSpeed(F, ctx) ==
    F.SwingMode # ctx.RotationSpeed

\* pushSwingModeChanges
SwingModeChanged(F, ctx) ==
    F.SwingMode # ctx.SwingMode

Command(c, p) ==
    [command |-> c, parameter |-> p]

\* the command a stage of a dispatch builds from this.Fan
powerCommand(F) ==
    Command(IF Truthy(F.Active) THEN "turnOn" ELSE "turnOff", "default")

speedCommand(F) ==
    Command("setWindSpeed", ToString(F.RotationSpeed))

swingCommand(F) ==
    Command("setOscillation", IF F.SwingMode = SWING_ENABLED THEN "on" ELSE "off")

CommandFor(stage, F) ==
    CASE stage = "power" -> powerCommand(F)
      [] stage = "speed" -> speedCommand(F)
      [] stage = "swing" -> swingCommand(F)

FieldOf(stage) ==
    CASE stage = "power" -> "Active"
      [] stage = "speed" -> "RotationSpeed"
      [] stage = "swing" -> "SwingMode"

\* an openAPIpushChanges that pushed the swing mode before the speed
CloudNextSwingFirst(from, F, ctx) ==
    IF from \in {"start", "fallback"} /\ ActiveChanged(F, ctx) THEN "power"
    ELSE IF from \in {"start", "fallback", "power"} /\ Truthy(F.Active)
            /\ SwingModeChanged(F, ctx)
    THEN "swing"
    ELSE IF from \in {"start", "fallback", "power", "swing"} /\ Truthy(F.Active)
            /\ RotationSpeedChanged(F, ctx)
    THEN "speed"
    ELSE "done"

\* openAPIpushChanges: the next request the function sends after stage
\* `from` ("start" on entry from pushChanges, "fallback" on entry from
\* BLEPushConnection), or "done" when it returns without sending
CloudNext(from, F, ctx) ==
    IF from \in {"start", "fallback"} /\ ActiveChanged(F, ctx) THEN "power"
    ELSE IF from \in {"start", "fallback", "power"} /\ Truthy(F.Active)
            /\ RotationSpeedChanged(F, ctx)
    THEN "speed"
    ELSE IF from \in {"start", "fallback", "power", "speed"} /\ Truthy(F.Active)
            /\ SwingModeChanged(F, ctx)
    THEN "swing"
    ELSE "done"

DebounceArmEach(n) ==
    n + 1

\* debounceTime: a new signal replaces the armed timer
DebounceArm(n) ==
    1

VARIABLES
    cfg,                  \* device configuration, fixed at construction
    Motion,               \* the Motion accessory of motion.ts (a record, see MotionObject)
    Fan,                  \* this.Fan: Active, SwingMode, RotationSpeed
    Battery,              \* this.Battery: BatteryLevel, StatusLowBattery, ChargingState
    context,              \* accessory.context: the cached values
    hub,                  \* values last written with updateCharacteristic
    fanUpdateInProgress,  \* this.fanUpdateInProgress
    timers,               \* armed debounceTime timers of doFanUpdate
    cycles,               \* bag of running dispatches: subscriber invocations, detached chains
    followUps,            \* live interval(15000)...take(1) subscriptions
    periodicPassed,       \* skipWhile of the periodic interval has let a tick through
    refreshes,            \* refreshStatus calls in flight, by stage
    owed,                 \* history: bursts begun minus subscriber invocations
    burst,                \* history: the pending burst of setter calls
    last                  \* history: what the last step did

vars ==
    << cfg, Motion, Fan, Battery, context, hub, fanUpdateInProgress, timers, cycles,
       followUps, periodicPassed, refreshes, owed, burst, last >>

(***************************************************************************)
(* History records.  `last` says what the step just taken did: the         *)
(* subscriber invocation it made and the fields that then differed from    *)
(* the cache (diff), the commands it sent, the change tests it found       *)
(* false (skipped), the responses it handled, the dispatches it ended.     *)
(* A dispatch carries what it saw when the subscriber was invoked:         *)
(* this.Fan (snap), this.Fan as later setter calls changed it (expect),    *)
(* and whether anything but a setter wrote this.Fan since its burst began  *)
(* (clean).                                                                *)
(***************************************************************************)
\* The pending burst: the value its setter calls asked for, by field
\* (undefined for a field no call of the burst set), whether one of its calls
\* arrived while a dispatch was under way (during), and whether nothing but
\* setter calls has written this.Fan since it began (clean).
NoBurst ==
    [wanted |-> [f \in FanFields |-> undefined], during |-> FALSE, clean |-> TRUE]

\* fallback counts the calls of openAPIpushChanges that BLEPushConnection
\* made in the step.
\* fetch holds the outcome of the status request the step handled (the
\* response and its body), event the webhook event the step handled.
\* A reconciliation records across the steps of the refreshes under way the
\* webhook event that was delivered while a refresh was in flight (hook)
\* and the status body of the last refresh applied after it (later).
NoEvent ==
    [op |-> "none", diff |-> {}, sent |-> {}, skipped |-> {}, acked |-> {}, done |-> {},
     threw |-> FALSE, burst |-> NoBurst, hook |-> {}, later |-> {}, fallback |-> 0,
     fetch |-> {}, event |-> {}]

\* the event of a step of a refresh
RefreshEvent(op, later) ==
    [NoEvent EXCEPT !.op = op, !.hook = last.hook,
                    !.later = IF last.hook = {} THEN {} ELSE later]

\* the event of the step that handled the outcome sr of a status request
FetchEvent(sr) ==
    [RefreshEvent(IF Success(sr.resp) THEN "refreshed" ELSE "refreshFailed",
                  IF Success(sr.resp) THEN {sr.body} ELSE last.later)
        EXCEPT !.fetch = {sr}]

SentEvent(c, stage, F) ==
    [stage |-> stage, cmd |-> CommandFor(stage, F), flush |-> c.snap[FieldOf(stage)],
     expect |-> c.expect[FieldOf(stage)], clean |-> c.clean, transport |-> c.transport]

\* a response to the command in flight: ok when it reports success, final
\* when the command is not attempted again
AckEvent(c, ok, final) ==
    [stage |-> c.pc, cmd |-> c.cmd, ok |-> ok, final |-> final, transport |-> c.transport,
     attempt |-> IF c.transport = "ble" THEN MaxRetryBLE - c.left ELSE 1,
     budget |-> IF c.transport = "ble" THEN MaxRetryBLE ELSE deviceMaxRetries]

NoCommand ==
    Command("none", "none")

Stages ==
    << "power", "speed", "swing" >>

StageNo(stage) ==
    CASE stage = "start" -> 0
      [] stage = "fallback" -> 0
      [] stage = "power" -> 1
      [] stage = "speed" -> 2
      [] stage = "swing" -> 3
      [] stage = "done" -> 4

\* the stages openAPIpushChanges passes over without sending between two stages
Between(from, to) ==
    { Stages[i] : i \in { j \in 1..3 : StageNo(from) < j /\ j < StageNo(to) } }

\* the fields of this.Fan that differ from the cached values
DiffNow ==
    { f \in FanFields : Fan[f] # context[f] }

RefreshInFlight ==
    refreshes.connect + refreshes.scan + refreshes.cloud

NoFan ==
    [Active |-> 0, SwingMode |-> 0, RotationSpeed |-> 0]

\* a write to this.Fan that no setter made: the dispatches under way are no
\* longer undisturbed (what they saw at the flush is then of no use)
DisturbOne(c) ==
    [c EXCEPT !.clean = FALSE, !.snap = NoFan, !.expect = NoFan]

Disturb(cs) ==
    BagOfAll(DisturbOne, cs)

\* the same for the pending burst, if there is one
DisturbBurst ==
    IF timers > 0 THEN [burst EXCEPT !.clean = FALSE] ELSE burst

Put(cs, c) ==
    cs (+) SetToBag({c})

Take(cs, c) ==
    cs (-) SetToBag({c})

(***************************************************************************)
(* The Motion accessory (motion.ts).  Light levels are counted in units of *)
(* 0.0001 lux, the value the constructor starts the light sensor with.     *)
(***************************************************************************)
LuxScale == 10000
\* accessory.context.CurrentAmbientLightLevel ?? 0.0001
InitLux == 1
\* device.motion?.set_minLux ?? 1, device.motion?.set_maxLux ?? 6001
set_minLux == 1 * LuxScale
set_maxLux == 6001 * LuxScale

MotionFields == {"MotionDetected", "BatteryLevel", "StatusLowBattery", "CurrentAmbientLightLevel"}

\* the body of GET .../status of a motion sensor
MotionBody(m, br, b) ==
    [moveDetected |-> m, brightness |-> br, battery |-> b]

MotionBodies ==
    { MotionBody(m, br, b) : m \in {JStrue, JSfalse}, br \in {"dim", "bright"}, b \in {100, 5} }

MotionResponses ==
    { [resp |-> r, body |-> b] :
        r \in {Response(FALSE, 200, 100), Response(FALSE, 200, 190), Response(TRUE, 0, 0)},
        b \in MotionBodies }

\* webhook events of a motion sensor
DetectionStates == {"DETECTED", "NOT_DETECTED"}

\* what a step of the Motion accessory did: the operation and, for a
\* status fetch that succeeded, the body it parsed; resp is the response
\* of the status request the step handled
\* threw: the step read this.LightSensor!.CurrentAmbientLightLevel or
\* this.LightSensor!.Service with no LightSensor object (a TypeError)
MotionEvent(op, body) ==
    [op |-> op, body |-> body, resp |-> {}, threw |-> FALSE]

\* this.LightSensor!.CurrentAmbientLightLevel can be read: without the
\* object (hide_lightsensor) the read throws a TypeError
HasLightSensor(M) ==
    ~M.hide_lightsensor

\* Motion.updateHomeKitCharacteristics: the values copied to one of
\* accessory.context and the characteristics (old); the light level is
\* copied only if (this.BLE), and the function throws there, after the
\* other copies, when there is no LightSensor object
MotionCopy(M, old) ==
    [MotionDetected |-> IF M.MotionSensor.MotionDetected = undefined THEN old.MotionDetected
                        ELSE M.MotionSensor.MotionDetected,
     BatteryLevel |-> IF M.Battery.BatteryLevel = undefined THEN old.BatteryLevel
                      ELSE M.Battery.BatteryLevel,
     StatusLowBattery |-> IF M.Battery.StatusLowBattery = undefined THEN old.StatusLowBattery
                          ELSE M.Battery.StatusLowBattery,
     CurrentAmbientLightLevel |->
         IF BLE(cfg) /\ HasLightSensor(M) /\ M.LightSensor.CurrentAmbientLightLevel # undefined
         THEN M.LightSensor.CurrentAmbientLightLevel
         ELSE old.CurrentAmbientLightLevel]

MotionUpdateHomeKitCharacteristics(M) ==
    [M EXCEPT !.context = MotionCopy(M, M.context), !.hub = MotionCopy(M, M.hub)]

\* updateHomeKitCharacteristics and apiError dereference this.LightSensor
\* if (this.BLE), whether or not the constructor built the object
LightSensorDereferenced(M) ==
    BLE(cfg) /\ ~HasLightSensor(M)

\* Motion.openAPIparseStatus
MotionOpenAPIparseStatus(M, body) ==
    LET level == Number(body.battery) IN
    [M EXCEPT !.MotionSensor.MotionDetected = body.moveDetected,
              !.LightSensor.CurrentAmbientLightLevel =
                  IF M.hide_lightsensor THEN @
                  ELSE IF body.brightness = "dim" THEN set_minLux ELSE set_maxLux,
              !.Battery.BatteryLevel = IF level = NaN THEN 100 ELSE level,
              !.Battery.StatusLowBattery =
                  IF JSLess(level, 10) THEN BATTERY_LEVEL_LOW ELSE BATTERY_LEVEL_NORMAL]

\* Motion.BLEparseStatus
MotionBLEparseStatus(M, sd) ==
    LET level == IF sd.battery = undefined THEN 100 ELSE sd.battery IN
    [M EXCEPT !.MotionSensor.MotionDetected = sd.movement,
              !.LightSensor.CurrentAmbientLightLevel =
                  IF M.hide_lightsensor THEN @
                  ELSE IF sd.lightLevel \in {"dark", "1"} THEN set_minLux ELSE set_maxLux,
              !.Battery.BatteryLevel = level,
              !.Battery.StatusLowBattery =
                  IF level < 10 THEN BATTERY_LEVEL_LOW ELSE BATTERY_LEVEL_NORMAL]

\* Motion.offlineOff
MotionOfflineOff(M) ==
    IF cfg.offline THEN [M EXCEPT !.hub.MotionDetected = JSfalse] ELSE M

\* Motion.apiError
MotionApiError(M) ==
    [M EXCEPT !.hub = [MotionDetected |-> ErrorMarker, BatteryLevel |-> ErrorMarker,
                       StatusLowBattery |-> ErrorMarker,
                       CurrentAmbientLightLevel |->
                           IF BLE(cfg) /\ HasLightSensor(M) THEN ErrorMarker
                           ELSE @.CurrentAmbientLightLevel]]

\* the Motion object after its constructor: the fields as built when
\* nothing was cached, refreshStatus() started by its route,
\* updateHomeKitCharacteristics() run and the refresh interval subscribed
MotionObject(c, hide) ==
    LET none == [f \in MotionFields |-> undefined]
        M == [hide_lightsensor |-> hide,
              MotionSensor |-> [MotionDetected |-> JSfalse],
              LightSensor |-> [CurrentAmbientLightLevel |-> IF hide THEN undefined ELSE InitLux],
              Battery |-> [BatteryLevel |-> 100, StatusLowBattery |-> BATTERY_LEVEL_NORMAL],
              context |-> none,
              hub |-> [none EXCEPT !.StatusLowBattery = BATTERY_LEVEL_NORMAL],
              refreshes |-> [connect |-> IF RefreshRoute(c) = "ble" THEN 1 ELSE 0,
                             scan |-> 0,
                             cloud |-> IF RefreshRoute(c) = "cloud" THEN 1 ELSE 0],
              last |-> MotionEvent("none", {})]
        copy == [MotionDetected |-> JSfalse, BatteryLevel |-> 100,
                 StatusLowBattery |-> BATTERY_LEVEL_NORMAL,
                 CurrentAmbientLightLevel |-> IF BLE(c) /\ ~hide THEN InitLux ELSE undefined]
    IN [M EXCEPT !.context = copy,
                 !.hub = IF RefreshRoute(c) = "offline" /\ c.offline
                         THEN [copy EXCEPT !.MotionDetected = JSfalse] ELSE copy]

(***************************************************************************)
(* Construction.                                                           *)
(***************************************************************************)
\* this.Fan as the constructor builds it when nothing was cached
InitFan ==
    [Active |-> INACTIVE, SwingMode |-> SWING_DISABLED, RotationSpeed |-> 0]

InitBattery ==
    [BatteryLevel |-> 100, StatusLowBattery |-> BATTERY_LEVEL_NORMAL, ChargingState |-> NOT_CHARGING]

\* the refreshStatus call the constructor starts, by its route
InitRefreshes(c) ==
    [connect |-> IF RefreshRoute(c) = "ble" THEN 1 ELSE 0,
     scan |-> 0,
     cloud |-> IF RefreshRoute(c) = "cloud" THEN 1 ELSE 0]

\* a freshly constructed accessory; hides are the settings of
\* device.motion.hide_lightsensor to construct the Motion accessory with
InitAccessory(configs, hides) ==
    /\ cfg \in configs
    /\ Motion \in { MotionObject(cfg, h) : h \in hides }
    /\ Fan = InitFan
    /\ Battery = InitBattery
    /\ context = updateContext(Fan, Battery, [f \in {} |-> 0])
    /\ hub = updateHub(Fan, offlineOff(cfg, Fan))
    /\ fanUpdateInProgress = FALSE
    /\ timers = 0
    /\ cycles = EmptyBag
    /\ followUps = 0
    /\ periodicPassed = FALSE
    /\ refreshes = InitRefreshes(cfg)
    /\ owed = 0
    /\ burst = NoBurst
    /\ last = NoEvent

InitWith(configs) ==
    InitAccessory(configs, {FALSE})

Init ==
    InitWith(Configs)

(***************************************************************************)
(* The setters: ActiveSet, RotationSpeedSet, SwingModeSet.  Each stores    *)
(* the value and calls doFanUpdate.next(): the tap raises the flag and     *)
(* debounceTime arms its timer.                                            *)
(***************************************************************************)
ExpectOne(field, value, c) ==
    IF c.clean THEN [c EXCEPT !.expect[field] = value] ELSE c

\* a setter that signalled the change without storing the value
SignalOnly(field, value) ==
    /\ timers > 0 \/ BagCardinality(cycles) + followUps < MaxPending
    /\ fanUpdateInProgress' = TRUE
    /\ timers' = DebounceArm(timers)
    /\ owed' = IF timers = 0 THEN owed + 1 ELSE owed
    /\ burst' = [burst EXCEPT !.wanted[field] = value,
                              !.during = @ \/ cycles # EmptyBag]
    /\ cycles' = LET E(c) == ExpectOne(field, value, c) IN BagOfAll(E, cycles)
    /\ last' = NoEvent
    /\ UNCHANGED << cfg, Motion, Fan, Battery, context, hub, followUps, periodicPassed, refreshes >>

SetAndSignal(field, value) ==
    /\ timers > 0 \/ BagCardinality(cycles) + followUps < MaxPending
    /\ Fan' = [Fan EXCEPT ![field] = value]
    /\ fanUpdateInProgress' = TRUE
    /\ timers' = DebounceArm(timers)
    /\ owed' = IF timers = 0 THEN owed + 1 ELSE owed
    /\ burst' = [burst EXCEPT !.wanted[field] = value,
                              !.during = @ \/ cycles # EmptyBag]
    /\ cycles' = LET E(c) == ExpectOne(field, value, c) IN BagOfAll(E, cycles)
    /\ last' = NoEvent
    /\ UNCHANGED << cfg, Motion, Battery, context, hub, followUps, periodicPassed, refreshes >>

ActiveSet(value) ==
    SetAndSignal("Active", value)

RotationSpeedSet(value) ==
    SetAndSignal("RotationSpeed", value)

SwingModeSet(value) ==
    SetAndSignal("SwingMode", value)

(***************************************************************************)
(* The subscriber of doFanUpdate and pushChanges.                          *)
(***************************************************************************)
\* a subscriber that lowered the flag inside its try block, after pushChanges
EndCycleFlagInTry(cs, c, from, h, ack, threw) ==
    /\ cycles' = cs
    /\ hub' = h
    /\ last' = [NoEvent EXCEPT !.op = IF from = "start" THEN "flush" ELSE "end",
                               !.diff = IF from = "start" THEN DiffNow ELSE {},
                               !.burst = IF from = "start" THEN burst ELSE NoBurst,
                               !.acked = ack, !.done = {c}, !.threw = threw,
                               !.fallback = IF from = "fallback" THEN 1 ELSE 0,
                               !.skipped = IF c.transport = "cloud" THEN Between(from, "done")
                                           ELSE {}]
    /\ IF c.owner = "sub"
       THEN /\ fanUpdateInProgress' = IF threw THEN fanUpdateInProgress ELSE FALSE
            /\ followUps' = IF threw THEN followUps ELSE followUps + 1
       ELSE UNCHANGED << fanUpdateInProgress, followUps >>

\* the end of a dispatch: pushChanges, when it returns normally, subscribes
\* the follow-up interval, and the subscriber lowers the flag; a detached
\* chain (the BLE promise chain, its cloud fallback) just ends
EndCycle(cs, c, from, h, ack, threw) ==
    /\ cycles' = cs
    /\ hub' = h
    /\ last' = [NoEvent EXCEPT !.op = IF from = "start" THEN "flush" ELSE "end",
                               !.diff = IF from = "start" THEN DiffNow ELSE {},
                               !.burst = IF from = "start" THEN burst ELSE NoBurst,
                               !.acked = ack, !.done = {c}, !.threw = threw,
                               !.fallback = IF from = "fallback" THEN 1 ELSE 0,
                               !.skipped = IF c.transport = "cloud" THEN Between(from, "done")
                                           ELSE {}]
    /\ IF c.owner = "sub"
       THEN /\ fanUpdateInProgress' = FALSE
            /\ followUps' = IF threw THEN followUps ELSE followUps + 1
       ELSE UNCHANGED << fanUpdateInProgress, followUps >>

\* openAPIpushChanges from stage `from` on: send the next request, or return
\* (cs is the bag of the other dispatches)
AdvanceCloud(cs, c, from, h, ack) ==
    LET nxt == CloudNext(from, Fan, context) IN
    IF nxt = "done"
    THEN EndCycle(cs, c, from, h, ack, FALSE)
    ELSE /\ cycles' = Put(cs, [c EXCEPT !.pc = nxt, !.cmd = CommandFor(nxt, Fan),
                                        !.transport = "cloud"])
         /\ hub' = h
         /\ last' = [NoEvent EXCEPT !.op = IF from = "start" THEN "flush" ELSE "send",
                                    !.diff = IF from = "start" THEN DiffNow ELSE {},
                                    !.burst = IF from = "start" THEN burst ELSE NoBurst,
                                    !.acked = ack, !.skipped = Between(from, nxt),
                                    !.fallback = IF from = "fallback" THEN 1 ELSE 0,
                                    !.sent = {SentEvent([c EXCEPT !.transport = "cloud"], nxt, Fan)}]
         /\ UNCHANGED << fanUpdateInProgress, followUps >>

NewCycle ==
    [owner |-> "sub", transport |-> "none", pc |-> "start", left |-> 0, cmd |-> NoCommand,
     snap |-> IF burst.clean THEN Fan ELSE NoFan,
     expect |-> IF burst.clean THEN Fan ELSE NoFan,
     clean |-> burst.clean]

\* the debounce timer fires: the subscriber runs pushChanges up to its
\* first pending await
Flush ==
    /\ timers > 0
    /\ timers' = timers - 1
    /\ owed' = owed - 1
    /\ burst' = NoBurst
    /\ LET c == NewCycle
           route == PushRoute(cfg) IN
       CASE route = "cloud" -> AdvanceCloud(cycles, [c EXCEPT !.transport = "cloud"], "start", hub, {})
         [] route = "ble" ->
              IF ActiveChanged(Fan, context)
              THEN /\ cycles' = Put(cycles, [c EXCEPT !.pc = "connect", !.transport = "ble"])
                   /\ last' = [NoEvent EXCEPT !.op = "flush", !.diff = DiffNow, !.burst = burst]
                   /\ UNCHANGED << hub, fanUpdateInProgress, followUps >>
              ELSE EndCycle(cycles, [c EXCEPT !.transport = "ble"], "start", hub, {}, FALSE)
         [] route = "disabled" -> EndCycle(cycles, c, "start", hub, {}, FALSE)
         [] route = "offline" -> EndCycle(cycles, c, "start", offlineOff(cfg, hub), {}, FALSE)
    /\ UNCHANGED << cfg, Motion, Fan, Battery, context, periodicPassed, refreshes >>

PushRest ==
    << cfg, Motion, Fan, Battery, context, timers, periodicPassed, refreshes, owed, burst >>

\* the response to a POST .../commands arrives (or request() throws): the
\* function logs the outcome, or its catch calls apiError, and goes on
CloudResponse(c, r) ==
    /\ BagIn(c, cycles)
    /\ c.pc \in {"power", "speed", "swing"}
    /\ AdvanceCloud(Take(cycles, c), c, c.pc, IF r.threw THEN apiError(hub) ELSE hub,
                    {AckEvent(c, Success(r), TRUE)})
    /\ UNCHANGED PushRest

(***************************************************************************)
(* BLEpushChanges.  The function awaits connectBLE() and then builds the   *)
(* promise chain discover().then(retryBLE).then(...).catch(...) without    *)
(* awaiting or returning it: the function returns while the chain runs on. *)
(***************************************************************************)
\* a subscriber without its try/catch: the TypeError ends the invocation
BLEPushConnectedUncaught(c, sw) ==
    /\ BagIn(c, cycles)
    /\ c.pc = "connect"
    /\ IF sw = "undefined"
       THEN /\ cycles' = Take(cycles, c)
            /\ last' = [NoEvent EXCEPT !.op = "end", !.done = {c}, !.threw = TRUE]
            /\ UNCHANGED << hub, fanUpdateInProgress, followUps >>
       ELSE /\ cycles' = Put(Take(cycles, c), [c EXCEPT !.owner = "detached", !.pc = "discover"])
            /\ fanUpdateInProgress' = FALSE
            /\ followUps' = followUps + 1
            /\ last' = NoEvent
            /\ UNCHANGED hub
    /\ UNCHANGED PushRest

\* connectBLE() has resolved.  With no SwitchBot object, switchbot.discover
\* throws a TypeError out of pushChanges into the subscriber's catch
BLEPushConnected(c, sw) ==
    /\ BagIn(c, cycles)
    /\ c.pc = "connect"
    /\ IF sw = "undefined"
       THEN EndCycle(Take(cycles, c), c, c.pc, apiError(hub), {}, TRUE)
       ELSE /\ cycles' = Put(Take(cycles, c), [c EXCEPT !.owner = "detached", !.pc = "discover"])
            /\ fanUpdateInProgress' = FALSE
            /\ followUps' = followUps + 1
            /\ last' = NoEvent
            /\ UNCHANGED hub
    /\ UNCHANGED PushRest

\* one call of fn by retryBLE: turnOn or turnOff by this.Fan.Active now
BLEIssue(c, left) ==
    /\ cycles' = Put(Take(cycles, c),
                     [c EXCEPT !.pc = "attempt", !.left = left, !.cmd = powerCommand(Fan)])
    /\ last' = [NoEvent EXCEPT !.op = "send", !.sent = {SentEvent(c, "power", Fan)}]
    /\ UNCHANGED << hub, fanUpdateInProgress, followUps >>

\* the chain's catch: apiError, then BLEPushConnection
BLECatch(c, ack) ==
    IF FallbackToCloud(cfg)
    THEN AdvanceCloud(Take(cycles, c), c, "fallback", apiError(hub), ack)
    ELSE EndCycle(Take(cycles, c), c, c.pc, apiError(hub), ack, FALSE)

\* discover() has settled
BLEDiscovered(c, ok) ==
    /\ BagIn(c, cycles)
    /\ c.pc = "discover"
    /\ IF ok THEN BLEIssue(c, MaxRetryBLE - 1) ELSE BLECatch(c, {})
    /\ UNCHANGED PushRest

\* an attempt has failed: retryBLE sleeps if it has attempts left
BLEAttemptFailed(c) ==
    /\ BagIn(c, cycles)
    /\ c.pc = "attempt"
    /\ IF c.left > 0
       THEN /\ cycles' = Put(Take(cycles, c), [c EXCEPT !.pc = "sleep"])
            /\ last' = [NoEvent EXCEPT !.op = "retry",
                                       !.acked = {AckEvent([c EXCEPT !.pc = "power"], FALSE, FALSE)}]
            /\ UNCHANGED << hub, fanUpdateInProgress, followUps >>
       ELSE BLECatch(c, {AckEvent([c EXCEPT !.pc = "power"], FALSE, TRUE)})
    /\ UNCHANGED PushRest

\* the sleep of retryBLE is over: fn is called again
BLERetry(c) ==
    /\ BagIn(c, cycles)
    /\ c.pc = "sleep"
    /\ BLEIssue(c, c.left - 1)
    /\ UNCHANGED PushRest

\* the command has resolved: the chain's last then sets Active to false
BLEAttemptSucceeded(c) ==
    /\ BagIn(c, cycles)
    /\ c.pc = "attempt"
    /\ Fan' = [Fan EXCEPT !.Active = JSfalse]
    /\ cycles' = Disturb(Take(cycles, c))
    /\ burst' = DisturbBurst
    /\ last' = [NoEvent EXCEPT !.op = "end", !.done = {c},
                               !.acked = {AckEvent([c EXCEPT !.pc = "power"], TRUE, TRUE)}]
    /\ UNCHANGED << cfg, Motion, Battery, context, hub, fanUpdateInProgress, timers, followUps,
                    periodicPassed, refreshes, owed >>

(***************************************************************************)
(* refreshStatus and the two timers that call it.                          *)
(***************************************************************************)
\* refreshStatus up to its first pending await
StartRefresh ==
    LET route == RefreshRoute(cfg) IN
    /\ refreshes' = CASE route = "ble" -> [refreshes EXCEPT !.connect = @ + 1]
                      [] route = "cloud" -> [refreshes EXCEPT !.cloud = @ + 1]
                      [] OTHER -> refreshes
    /\ hub' = IF route = "offline" THEN offlineOff(cfg, hub) ELSE hub

\* a tick of interval(deviceRefreshRate): skipWhile drops it while the flag
\* is up and no tick has passed yet; after the first tick that passes,
\* skipWhile passes every tick (n bounds the refreshStatus calls in flight)
PeriodicTickWithin(n) ==
    /\ periodicPassed \/ ~fanUpdateInProgress
    /\ RefreshInFlight < n
    /\ periodicPassed' = TRUE
    /\ StartRefresh
    /\ last' = [NoEvent EXCEPT !.op = "tick"]
    /\ UNCHANGED << cfg, Motion, Fan, Battery, context, fanUpdateInProgress, timers, cycles,
                    followUps, owed, burst >>

PeriodicTick ==
    PeriodicTickWithin(MaxRefresh)

\* a tick of a follow-up interval(15000) that skipWhile lets through: take(1)
\* ends the subscription
FollowUpTick ==
    /\ followUps > 0
    /\ ~fanUpdateInProgress
    /\ RefreshInFlight < MaxRefresh
    /\ followUps' = followUps - 1
    /\ StartRefresh
    /\ last' = [NoEvent EXCEPT !.op = "followUp"]
    /\ UNCHANGED << cfg, Motion, Fan, Battery, context, fanUpdateInProgress, timers, cycles,
                    periodicPassed, owed, burst >>

\* a reconciliation: this.Fan and this.Battery are overwritten and
\* updateHomeKitCharacteristics copies them to the context and the hub
Reconcile(F, B) ==
    /\ Fan' = F
    /\ Battery' = B
    /\ context' = updateContext(F, B, context)
    /\ hub' = updateHub(F, hub)
    /\ cycles' = Disturb(cycles)
    /\ burst' = DisturbBurst

\* openAPIRefreshStatus after retryRequest has settled
RefreshCloudResponse(sr) ==
    /\ refreshes.cloud > 0
    /\ refreshes' = [refreshes EXCEPT !.cloud = @ - 1]
    /\ IF sr.resp.threw
       THEN /\ hub' = apiError(hub)
            /\ UNCHANGED << Fan, Battery, context, cycles, burst >>
       ELSE IF Success(sr.resp)
       THEN Reconcile(openAPIparseStatusFan(Fan, sr.body), openAPIparseStatusBattery(Battery, sr.body))
       ELSE UNCHANGED << Fan, Battery, context, hub, cycles, burst >>
    /\ last' = FetchEvent(sr)
    /\ UNCHANGED << cfg, Motion, fanUpdateInProgress, timers, followUps, periodicPassed, owed >>

\* BLERefreshStatus after connectBLE() has resolved: the scan is started in
\* a detached async function; without a SwitchBot object that function
\* fails and BLERefreshConnection falls back to the cloud if it can
RefreshBLEConnected(sw) ==
    /\ refreshes.connect > 0
    /\ refreshes' = IF sw = "ok"
                    THEN [refreshes EXCEPT !.connect = @ - 1, !.scan = @ + 1]
                    ELSE IF FallbackToCloud(cfg)
                    THEN [refreshes EXCEPT !.connect = @ - 1, !.cloud = @ + 1]
                    ELSE [refreshes EXCEPT !.connect = @ - 1]
    /\ last' = RefreshEvent(IF sw = "ok" THEN "scan" ELSE "noConnection", last.later)
    /\ UNCHANGED << cfg, Motion, Fan, Battery, context, hub, fanUpdateInProgress, timers, cycles,
                    followUps, periodicPassed, owed, burst >>

\* the scan is over: stopScan, then BLEparseStatus of the service data,
\* which throws in the detached function when there is none
RefreshScanEnd(sd) ==
    /\ refreshes.scan > 0
    /\ refreshes' = [refreshes EXCEPT !.scan = @ - 1]
    /\ IF sd = {}
       THEN UNCHANGED << Fan, Battery, context, hub, cycles, burst >>
       ELSE Reconcile(BLEparseStatus(Fan, CHOOSE d \in sd : TRUE), Battery)
    /\ last' = RefreshEvent(IF sd = {} THEN "scanEmpty" ELSE "scanned", last.later)
    /\ UNCHANGED << cfg, Motion, fanUpdateInProgress, timers, followUps, periodicPassed, owed >>

(***************************************************************************)
(* The webhook handler registered by registerWebhook.                      *)
(***************************************************************************)
\* a handler registered whatever device.webhook says
WebhookUnasked(ctx) ==
    /\ Reconcile(webhookFan(Fan, ctx), webhookBattery(Battery, ctx))
    /\ last' = [NoEvent EXCEPT !.op = "webhook", !.event = {ctx},
                               !.hook = IF RefreshInFlight > 0 THEN {ctx} ELSE {}]
    /\ UNCHANGED << cfg, Motion, fanUpdateInProgress, timers, followUps, periodicPassed, refreshes, owed >>

Webhook(ctx) ==
    /\ cfg.webhook
    /\ Reconcile(webhookFan(Fan, ctx), webhookBattery(Battery, ctx))
    /\ last' = [NoEvent EXCEPT !.op = "webhook", !.event = {ctx},
                               !.hook = IF RefreshInFlight > 0 THEN {ctx} ELSE {}]
    /\ UNCHANGED << cfg, Motion, fanUpdateInProgress, timers, followUps, periodicPassed, refreshes, owed >>

(***************************************************************************)
(* The specification.                                                      *)
(***************************************************************************)
Next ==
    \/ \E v \in ActiveValues : ActiveSet(v)
    \/ \E v \in SpeedValues : RotationSpeedSet(v)
    \/ \E v \in SwingValues : SwingModeSet(v)
    \/ Flush
    \/ \E c \in BagToSet(cycles), r \in PushResponses : CloudResponse(c, r)
    \/ \E c \in BagToSet(cycles), sw \in ConnectResults : BLEPushConnected(c, sw)
    \/ \E c \in BagToSet(cycles), ok \in BOOLEAN : BLEDiscovered(c, ok)
    \/ \E c \in BagToSet(cycles) : BLEAttemptFailed(c)
    \/ \E c \in BagToSet(cycles) : BLERetry(c)
    \/ \E c \in BagToSet(cycles) : BLEAttemptSucceeded(c)
    \/ PeriodicTick
    \/ FollowUpTick
    \/ \E sr \in StatusResponses : RefreshCloudResponse(sr)
    \/ \E sw \in ConnectResults : RefreshBLEConnected(sw)
    \/ \E sd \in Advertisements : RefreshScanEnd(sd)
    \/ \E ctx \in WebhookContexts : Webhook(ctx)

Spec ==
    Init /\ [][Next]_vars

\* the same device code, configured to fall back from BLE to the cloud
SpecHybrid ==
    InitWith(HybridConfigs) /\ [][Next]_vars

(***************************************************************************)
(* Routing: the Fan under every device configuration, with the power       *)
(* setter as the only setter.                                              *)
(***************************************************************************)
ConnectionTypes == {"BLE", "OpenAPI", "BLE/OpenAPI"}

AllConfigs ==
    { Config(ct, tok, cloud, off, TRUE) :
        ct \in ConnectionTypes, tok \in BOOLEAN, cloud \in BOOLEAN, off \in BOOLEAN }

NextRouting ==
    \/ \E v \in ActiveValues : ActiveSet(v)
    \/ Flush
    \/ \E c \in BagToSet(cycles), r \in PushResponses : CloudResponse(c, r)
    \/ \E c \in BagToSet(cycles), sw \in ConnectResults : BLEPushConnected(c, sw)
    \/ \E c \in BagToSet(cycles), ok \in BOOLEAN : BLEDiscovered(c, ok)
    \/ \E c \in BagToSet(cycles) : BLEAttemptFailed(c)
    \/ \E c \in BagToSet(cycles) : BLERetry(c)
    \/ \E c \in BagToSet(cycles) : BLEAttemptSucceeded(c)
    \/ PeriodicTick
    \/ FollowUpTick
    \/ \E sr \in StatusResponses : RefreshCloudResponse(sr)
    \/ \E sw \in ConnectResults : RefreshBLEConnected(sw)
    \/ \E sd \in Advertisements : RefreshScanEnd(sd)
    \/ \E ctx \in ReconcileContexts : Webhook(ctx)

SpecRouting ==
    InitWith(AllConfigs) /\ [][NextRouting]_vars

(***************************************************************************)
(* The Motion accessory: the refresh interval (motionUbpdateInProgress is  *)
(* never raised, so skipWhile passes every tick), refreshStatus over its   *)
(* transports and the webhook handler.                                     *)
(***************************************************************************)
FanVars ==
    << Fan, Battery, context, hub, fanUpdateInProgress, timers, cycles,
       followUps, periodicPassed, refreshes, owed, burst, last >>

MotionInFlight ==
    Motion.refreshes.connect + Motion.refreshes.scan + Motion.refreshes.cloud

\* a tick of interval(deviceRefreshRate): Motion.refreshStatus up to its
\* first pending await
MotionTick ==
    LET route == RefreshRoute(cfg)
        M == IF route = "offline" THEN MotionOfflineOff(Motion) ELSE Motion IN
    /\ MotionInFlight < MaxOverlap
    /\ Motion' = [M EXCEPT !.refreshes =
                     CASE route = "ble" -> [@ EXCEPT !.connect = @ + 1]
                       [] route = "cloud" -> [@ EXCEPT !.cloud = @ + 1]
                       [] OTHER -> @,
                   !.last = MotionEvent("tick", {})]
    /\ UNCHANGED << cfg, FanVars >>

\* Motion.openAPIRefreshStatus after retryRequest has settled
MotionCloudResponse(sr) ==
    LET M == [Motion EXCEPT !.refreshes.cloud = @ - 1] IN
    /\ Motion.refreshes.cloud > 0
    /\ Motion' =
         IF sr.resp.threw
         THEN [MotionApiError(M) EXCEPT
                 !.last = [MotionEvent("refreshFailed", {}) EXCEPT
                              !.resp = {sr.resp}, !.threw = LightSensorDereferenced(M)]]
         ELSE IF Success(sr.resp)
         THEN [MotionUpdateHomeKitCharacteristics(MotionOpenAPIparseStatus(M, sr.body))
                 EXCEPT !.last = [MotionEvent("refreshed", {sr.body}) EXCEPT
                                     !.resp = {sr.resp}, !.threw = LightSensorDereferenced(M)]]
         ELSE [M EXCEPT !.last = [MotionEvent("refreshFailed", {}) EXCEPT !.resp = {sr.resp}]]
    /\ UNCHANGED << cfg, FanVars >>

\* Motion.BLERefreshStatus after connectBLE() has resolved
MotionBLEConnected(sw) ==
    /\ Motion.refreshes.connect > 0
    /\ Motion' = [Motion EXCEPT
                     !.refreshes = IF sw = "ok"
                                   THEN [@ EXCEPT !.connect = @ - 1, !.scan = @ + 1]
                                   ELSE IF FallbackToCloud(cfg)
                                   THEN [@ EXCEPT !.connect = @ - 1, !.cloud = @ + 1]
                                   ELSE [@ EXCEPT !.connect = @ - 1],
                     !.last = MotionEvent(IF sw = "ok" THEN "scan" ELSE "noConnection", {})]
    /\ UNCHANGED << cfg, FanVars >>

\* the scan is over: BLEparseStatus of switchbot.onadvertisement.serviceData
\* throws in the detached function when there is none
MotionScanEnd(sd) ==
    LET M == [Motion EXCEPT !.refreshes.scan = @ - 1] IN
    /\ Motion.refreshes.scan > 0
    /\ Motion' =
         IF sd = {}
         THEN [M EXCEPT !.last = MotionEvent("scanEmpty", {})]
         ELSE [MotionUpdateHomeKitCharacteristics(MotionBLEparseStatus(M, CHOOSE d \in sd : TRUE))
                 EXCEPT !.last = [MotionEvent("scanned", sd) EXCEPT
                                     !.threw = LightSensorDereferenced(M)]]
    /\ UNCHANGED << cfg, FanVars >>

\* the webhook handler of the Motion accessory
MotionWebhook(detectionState) ==
    LET M == [Motion EXCEPT !.MotionSensor.MotionDetected =
                                IF detectionState = "DETECTED" THEN JStrue ELSE JSfalse] IN
    /\ cfg.webhook
    /\ Motion' = [MotionUpdateHomeKitCharacteristics(M) EXCEPT
                     !.last = [MotionEvent("webhook", {}) EXCEPT
                                  !.threw = LightSensorDereferenced(M)]]
    /\ UNCHANGED << cfg, FanVars >>

NextMotion ==
    \/ MotionTick
    \/ \E sr \in MotionResponses : MotionCloudResponse(sr)
    \/ \E sw \in ConnectResults : MotionBLEConnected(sw)
    \/ \E sd \in Advertisements : MotionScanEnd(sd)
    \/ \E ds \in DetectionStates : MotionWebhook(ds)

\* a cloud sensor, a BLE sensor and one that falls back, with the light
\* sensor shown or hidden
MotionConfigs ==
    Configs \cup HybridConfigs

SpecMotion ==
    InitAccessory(MotionConfigs, BOOLEAN) /\ [][NextMotion]_vars

(***************************************************************************)
(* Reconciliation alone: the hub sets nothing, the refresh interval, the   *)
(* status fetches and the webhook run against each other, and a tick is    *)
(* taken while up to MaxOverlap refreshStatus calls are in flight.         *)
(***************************************************************************)
ReconcileConfigs ==
    Configs \cup HybridConfigs

ReconcileResponses ==
    { [resp |-> r, body |-> b] :
        r \in {Response(FALSE, 200, 100), Response(FALSE, 200, 190), Response(TRUE, 0, 0)},
        b \in StatusBodies \cup {StatusBody("off", "off", 0, "charging", 5)} }

NextReconcile ==
    \/ PeriodicTickWithin(MaxOverlap)
    \/ \E sr \in ReconcileResponses : RefreshCloudResponse(sr)
    \/ \E sw \in ConnectResults : RefreshBLEConnected(sw)
    \/ \E sd \in Advertisements : RefreshScanEnd(sd)
    \/ \E ctx \in ReconcileContexts : Webhook(ctx)

SpecReconcile ==
    InitWith(ReconcileConfigs) /\ [][NextReconcile]_vars

(***************************************************************************)
(* Payloads: a device of either type (the platform builds a Fan or a       *)
(* Motion accessory by device.deviceType), with or without the webhook,    *)
(* reconciling status responses of every kind of status code, bodies with  *)
(* a battery level that is missing, low or out of range, and webhook       *)
(* events that omit fields.                                                *)
(***************************************************************************)
DeviceConfigs ==
    { [c EXCEPT !.webhook = w] :
        c \in ReconcileConfigs \cup { MotionConfig(r) : r \in ReconcileConfigs },
        w \in BOOLEAN }

\* battery fields of payloads: missing, low, full, beyond the range
BatteryValues == {undefined, 5, 100, 150}

\* outcomes of a status request by status code
CodeResponses ==
    { Response(FALSE, s, b) : s \in {200, 100, 500}, b \in {200, 100, 190} }
        \cup { Response(TRUE, 0, 0) }

DeviceResponses ==
    { [resp |-> r, body |-> b] :
        r \in CodeResponses,
        b \in { StatusBody("on", "on", 50, "charging", v) : v \in BatteryValues }
                \cup { StatusBody("off", "off", 0, "discharging", 100) } }

DeviceMotionResponses ==
    { [resp |-> r, body |-> b] :
        r \in CodeResponses,
        b \in { MotionBody(JStrue, "dim", v) : v \in BatteryValues }
                \cup { MotionBody(JSfalse, "bright", 100) } }

\* webhook events: whole ones, one with nothing but the power state, one
\* without the power state
DeviceContexts ==
    { WebhookContext("ON", "on", 42, "charging", 80),
      WebhookContext("ON", "on", 42, "charging", 150),
      WebhookContext("OFF", "off", 0, "discharging", 100),
      WebhookContext("ON", "absent", undefined, "absent", undefined),
      WebhookContext("absent", "on", 42, "charging", 80) }

NextDevices ==
    \/ cfg.deviceType = "Fan" /\ PeriodicTickWithin(MaxOverlap)
    \/ cfg.deviceType = "Fan" /\ \E sr \in DeviceResponses : RefreshCloudResponse(sr)
    \/ cfg.deviceType = "Fan" /\ \E sw \in ConnectResults : RefreshBLEConnected(sw)
    \/ cfg.deviceType = "Fan" /\ \E sd \in Advertisements : RefreshScanEnd(sd)
    \/ cfg.deviceType = "Fan" /\ \E ctx \in DeviceContexts : Webhook(ctx)
    \/ cfg.deviceType = "Motion" /\ MotionTick
    \/ cfg.deviceType = "Motion" /\ \E sr \in DeviceMotionResponses : MotionCloudResponse(sr)
    \/ cfg.deviceType = "Motion" /\ \E sw \in ConnectResults : MotionBLEConnected(sw)
    \/ cfg.deviceType = "Motion" /\ \E sd \in Advertisements : MotionScanEnd(sd)
    \/ cfg.deviceType = "Motion" /\ \E ds \in DetectionStates : MotionWebhook(ds)

SpecDevices ==
    InitWith(DeviceConfigs) /\ [][NextDevices]_vars

(***************************************************************************)
(* The webhook against everything else: a Fan with its power setter, its   *)
(* dispatches and its refreshes, or a Motion accessory, each with the      *)
(* webhook option on or off.                                               *)
(***************************************************************************)
WebhookConfigs ==
    { [c EXCEPT !.webhook = w] :
        c \in Configs \cup { MotionConfig(r) : r \in Configs }, w \in BOOLEAN }

NextWebhook ==
    \/ cfg.deviceType = "Fan" /\ \E v \in ActiveValues : ActiveSet(v)
    \/ cfg.deviceType = "Fan" /\ Flush
    \/ cfg.deviceType = "Fan" /\
          \E c \in BagToSet(cycles), r \in PushResponses : CloudResponse(c, r)
    \/ cfg.deviceType = "Fan" /\
          \E c \in BagToSet(cycles), sw \in ConnectResults : BLEPushConnected(c, sw)
    \/ cfg.deviceType = "Fan" /\ \E c \in BagToSet(cycles), ok \in BOOLEAN : BLEDiscovered(c, ok)
    \/ cfg.deviceType = "Fan" /\ \E c \in BagToSet(cycles) : BLEAttemptFailed(c)
    \/ cfg.deviceType = "Fan" /\ \E c \in BagToSet(cycles) : BLERetry(c)
    \/ cfg.deviceType = "Fan" /\ \E c \in BagToSet(cycles) : BLEAttemptSucceeded(c)
    \/ cfg.deviceType = "Fan" /\ PeriodicTick
    \/ cfg.deviceType = "Fan" /\ FollowUpTick
    \/ cfg.deviceType = "Fan" /\ \E sr \in StatusResponses : RefreshCloudResponse(sr)
    \/ cfg.deviceType = "Fan" /\ \E sw \in ConnectResults : RefreshBLEConnected(sw)
    \/ cfg.deviceType = "Fan" /\ \E sd \in Advertisements : RefreshScanEnd(sd)
    \/ cfg.deviceType = "Fan" /\ \E ctx \in ReconcileContexts : Webhook(ctx)
    \/ cfg.deviceType = "Motion" /\ MotionTick
    \/ cfg.deviceType = "Motion" /\ \E sr \in MotionResponses : MotionCloudResponse(sr)
    \/ cfg.deviceType = "Motion" /\ \E sw \in ConnectResults : MotionBLEConnected(sw)
    \/ cfg.deviceType = "Motion" /\ \E sd \in Advertisements : MotionScanEnd(sd)
    \/ cfg.deviceType = "Motion" /\ \E ds \in DetectionStates : MotionWebhook(ds)

SpecWebhook ==
    InitWith(WebhookConfigs) /\ [][NextWebhook]_vars

(***************************************************************************)
(* Properties.                                                             *)
(***************************************************************************)
\* the fields the calls of a burst set
Requested(b) ==
    { f \in FanFields : b.wanted[f] # undefined }

\* this.Fan with one field given
FanWith(f, v) ==
    [NoFan EXCEPT ![f] = v]

C2_NoOverlap ==
    \A c \in BagToSet(cycles) :
        c.owner = "sub" =>
            /\ CopiesIn(c, cycles) = 1
            /\ \A d \in BagToSet(cycles) : d.owner = "sub" => d = c

\* C3: when the burst of a cloud device is flushed, every field its setter
\* calls set still holds in this.Fan the value the last of them asked for,
\* whatever refresh result or webhook event was applied in between.
C3_DesiredKept ==
    (last.op = "flush" /\ PushRoute(cfg) = "cloud") =>
        \A f \in Requested(last.burst) : Fan[f] = last.burst.wanted[f]

\* the fields pushChanges tests before field f
Earlier(f) ==
    CASE f = "Active" -> {}
      [] f = "RotationSpeed" -> {"Active"}
      [] f = "SwingMode" -> {"Active", "RotationSpeed"}

\* C4: when a burst with a setter call made during a dispatch is flushed on
\* a cloud device with power on, no refresh or webhook having written
\* this.Fan meanwhile, the first field that differs from the cache, if it is
\* one the burst set to a value other than the cached one, has its command
\* sent with that value.
C4_PickedUp ==
    (/\ last.op = "flush"
     /\ last.burst.during
     /\ last.burst.clean
     /\ PushRoute(cfg) = "cloud"
     /\ Truthy(Fan.Active)) =>
        \A f \in Requested(last.burst) :
            (/\ last.burst.wanted[f] # context[f]
             /\ \A g \in Earlier(f) : Fan[g] = context[g])
            => \E e \in last.sent :
                   /\ FieldOf(e.stage) = f
                   /\ e.cmd = CommandFor(e.stage, FanWith(f, last.burst.wanted[f]))

\* C5: fanUpdateInProgress is true whenever a burst is pending or a
\* dispatch, its BLE command included, is under way.
C5_FlagHeld ==
    (timers > 0 \/ cycles # EmptyBag) => fanUpdateInProgress

\* C6: in a cloud dispatch with power on, a command is sent only for a
\* field whose value in this.Fan differs from the cached one, and a field
\* is passed over only when the two are equal.
C6_FieldByField ==
    Truthy(Fan.Active) =>
        /\ \A e \in last.sent :
             e.transport = "cloud" => Fan[FieldOf(e.stage)] # context[FieldOf(e.stage)]
        /\ \A st \in last.skipped : Fan[FieldOf(st)] = context[FieldOf(st)]

\* C7: a dispatch, BLE or cloud, that starts when Active, RotationSpeed and
\* SwingMode all equal their cached values sends no command: it ends in
\* the step that starts it, having sent nothing.
C7_Idempotent ==
    (last.op = "flush" /\ last.diff = {}) =>
        /\ last.sent = {}
        /\ last.done # {}

\* a cloud dispatch has run with power on and nothing to send
C7_Witness ==
    /\ last.op = "flush"
    /\ last.diff = {}
    /\ PushRoute(cfg) = "cloud"
    /\ Truthy(Fan.Active)
    /\ last.done # {}

\* C8: once a command is acknowledged with success, the cached value of its
\* field is the value that was sent.
C8_CachedFollows ==
    \A a \in last.acked :
        a.ok => a.cmd = CommandFor(a.stage, context)

\* C9: a command that has failed fewer times than the attempt budget is
\* attempted again, over the cloud as over BLE.
C9_Retried ==
    \A a \in last.acked :
        (~a.ok /\ a.attempt < a.budget) => ~a.final

\* C10: when a command has failed for the last time, the error reaches the
\* caller of pushChanges, and the field still differs from its cached value.
C10_Surfaced ==
    \A a \in last.acked :
        (~a.ok /\ a.final) =>
            /\ last.threw
            /\ Fan[FieldOf(a.stage)] # context[FieldOf(a.stage)]

\* C11: every step in which an invocation of pushChanges by the subscriber
\* ends, whether it returned or threw, leaves one more follow-up refresh
\* subscribed.
C11_FollowUp ==
    [][(\E c \in last'.done : c.owner = "sub") => followUps' = followUps + 1]_vars

\* C12: no refreshStatus call is started while an earlier call of the same
\* device has not returned: at most one call is awaiting its connection or
\* its status response.
C12_OneRefresh ==
    refreshes.connect + refreshes.cloud <= 1

\* what a status body of a motion sensor reports, as openAPIparseStatus reads it
MotionObserved(M, body) ==
    [MotionDetected |-> body.moveDetected,
     BatteryLevel |-> body.battery,
     CurrentAmbientLightLevel |-> IF body.brightness = "dim" THEN set_minLux ELSE set_maxLux]

\* C13: when a refreshStatus has completed with a successful payload, the
\* cached value of every field the payload reports equals the value
\* observed: for the Fan the cache equals this.Fan as parsed, for the Motion
\* accessory the cached motion, battery level and (where the light sensor
\* is shown) ambient light level are those of the body.
C13_CachedIsObserved ==
    /\ last.op = "refreshed" => \A f \in FanFields : context[f] = Fan[f]
    /\ \A body \in Motion.last.body :
          Motion.last.op = "refreshed" =>
             /\ Motion.context.MotionDetected = MotionObserved(Motion, body).MotionDetected
             /\ Motion.context.BatteryLevel = MotionObserved(Motion, body).BatteryLevel
             /\ HasLightSensor(Motion) =>
                   Motion.context.CurrentAmbientLightLevel =
                       MotionObserved(Motion, body).CurrentAmbientLightLevel

\* the Active a webhook event (on is "ON") or a status body (on is "on")
\* asks this.Fan to have
PowerOf(p, on) ==
    IF p = on THEN ACTIVE ELSE INACTIVE

\* C14 (as claimed): a webhook event with powerState ON and fanSpeed 42 was
\* delivered while a refresh was in flight; once no refresh is in flight,
\* this.Fan is active at speed 42, whatever the refresh reported.
C14_WebhookWins ==
    \A ctx \in last.hook :
        (RefreshInFlight = 0 /\ ctx.powerState = "ON" /\ ctx.fanSpeed = 42)
            => (Fan.Active = ACTIVE /\ Fan.RotationSpeed = 42)

\* C14 (amended): a webhook event was delivered while a refresh was in
\* flight; once no refresh is in flight, this.Fan has the power and speed
\* of whichever was written last: those of the last status body applied
\* after the event if there is one, else those of the event.
C14_LastWriterWins ==
    \A ctx \in last.hook :
        RefreshInFlight = 0 =>
            IF last.later = {}
            THEN Fan.Active = PowerOf(ctx.powerState, "ON") /\ Fan.RotationSpeed = ctx.fanSpeed
            ELSE \A body \in last.later :
                    Fan.Active = PowerOf(body.power, "on") /\ Fan.RotationSpeed = body.fanSpeed

\* the ON/42 event arrived during a refresh whose result, a body saying
\* off, was applied after it, and nothing is in flight any more
C14_Witness ==
    /\ RefreshInFlight = 0
    /\ \E ctx \in last.hook : ctx.powerState = "ON" /\ ctx.fanSpeed = 42
    /\ \E body \in last.later : body.power = "off"
    /\ Fan.Active = INACTIVE

\* C15: on a device that can fall back to the cloud (BLE/OpenAPI with a
\* credential), the step in which the local scan of a refresh ends without
\* service data starts one cloud status fetch for that refresh.
C15_FallbackFetch ==
    [][(last'.op = "scanEmpty" /\ FallbackToCloud(cfg))
          => refreshes'.cloud = refreshes.cloud + 1]_vars

\* the step just taken handled the failure of the last attempt of a BLE
\* command
BLECommandFailed ==
    \E a \in last.acked : a.transport = "ble" /\ ~a.ok /\ a.final

\* C16: in the step in which a BLE command has failed for the last time, a
\* BLE/OpenAPI device with a credential calls openAPIpushChanges once;
\* any other device calls it not at all, sends no request, and its
\* dispatch ends with the error on the characteristics.  openAPIpushChanges
\* is never called more than once in a step, and only on such a device.
C16_OneFallback ==
    /\ last.fallback <= 1
    /\ last.fallback = 1 => (cfg.connectionType = "BLE/OpenAPI" /\ cfg.token)
    /\ BLECommandFailed =>
          IF cfg.connectionType = "BLE/OpenAPI" /\ cfg.token
          THEN last.fallback = 1
          ELSE /\ last.fallback = 0
               /\ last.sent = {}
               /\ last.done # {}
               /\ hub = apiError(hub)

\* a BLE command has failed for the last time on a device that falls back,
\* and the fallback has sent a cloud command
C16_Witness ==
    /\ BLECommandFailed
    /\ last.fallback = 1
    /\ \E s \in last.sent : s.transport = "cloud"

\* the same failure on a device that has the credential but is BLE only
C16_WitnessNoFallback ==
    /\ BLECommandFailed
    /\ cfg.connectionType = "BLE" /\ cfg.token
    /\ last.fallback = 0


\* the fixed baseline: inactive, speed 0, swing disabled
Baseline ==
    [Active |-> INACTIVE, SwingMode |-> SWING_DISABLED, RotationSpeed |-> 0]

\* the step just taken was a whole refresh or push cycle that used no
\* transport: refreshStatus or pushChanges ran to its end in it
CycleWithoutTransport ==
    \/ last.op \in {"tick", "followUp"} /\ RefreshRoute(cfg) \in {"offline", "disabled"}
    \/ last.op = "flush" /\ PushRoute(cfg) \in {"offline", "disabled"}

\* C17: on a device flagged offline no refresh is awaiting a BLE connection,
\* a scan or a status response, and no dispatch is awaiting a BLE or cloud
\* operation, whatever its connection type and credential.
C17_OfflineQuiet ==
    cfg.offline => (RefreshInFlight = 0 /\ cycles = EmptyBag)

\* C18: on a device flagged offline, after a refreshStatus or pushChanges
\* that has run to its end, this.Fan (what the onGet handlers return) is
\* the baseline.
C18_OfflineBaseline ==
    (cfg.offline /\ (CycleWithoutTransport \/ last.done # {} \/ last.op \in {"refreshed", "refreshFailed"}))
        => Fan = Baseline

\* the device is cloud-only without a credential, or uses the cloud and has
\* the cloud service disabled
NoCloudAvailable(c) ==
    \/ c.connectionType = "OpenAPI" /\ ~c.token
    \/ OpenAPI(c) /\ ~c.enableCloudService

\* C19: on a cloud-only device without a credential, or one whose cloud
\* service is disabled, nothing is awaiting a network operation, and after
\* a refresh or push cycle the device is in the offline state: this.Fan or
\* at least the characteristics are at the baseline.
C19_ForcedOffline ==
    NoCloudAvailable(cfg) =>
        /\ RefreshInFlight = 0 /\ cycles = EmptyBag
        /\ CycleWithoutTransport => (Fan = Baseline \/ hub = Baseline)

\* the selection the contract states: local when BLE is configured, cloud
\* when OpenAPI is configured with a credential and the cloud service
\* enabled, no transport otherwise
ClaimedRoute(c) ==
    IF c.connectionType \in {"BLE", "BLE/OpenAPI"} THEN "ble"
    ELSE IF c.connectionType = "OpenAPI" /\ c.token /\ c.enableCloudService THEN "cloud"
    ELSE "none"

\* the branch an if-chain took, as one of local, cloud, no transport
RouteKind(route) ==
    IF route \in {"disabled", "offline"} THEN "none" ELSE route

\* C20: refreshStatus and pushChanges take the same branch for the same
\* configuration, and the branch a refreshStatus (on a tick) or a
\* pushChanges (on a flush) has just taken is the one the contract states.
C20_RoutesAsClaimed ==
    /\ RouteKind(RefreshRoute(cfg)) = RouteKind(PushRoute(cfg))
    /\ last.op \in {"tick", "followUp"} => RouteKind(RefreshRoute(cfg)) = ClaimedRoute(cfg)
    /\ last.op = "flush" => RouteKind(PushRoute(cfg)) = ClaimedRoute(cfg)

\* the HTTP status and the statusCode of the body are both 200 or 100
CodesAccepted(r) ==
    (r.statusCode = 200 \/ r.statusCode = 100) /\ (r.bodyStatus = 200 \/ r.bodyStatus = 100)

\* C21: a step that handles the response of a status request (one that
\* came back) applies the body to the state and syncs the cache and the
\* characteristics when both codes are accepted, and otherwise changes no
\* state field, no cached field and no characteristic; for the Fan and for
\* the Motion accessory.
C21_AppliedIffAccepted ==
    [][/\ \A sr \in last'.fetch :
             ~sr.resp.threw =>
                IF CodesAccepted(sr.resp)
                THEN /\ Fan'.Active = PowerOf(sr.body.power, "on")
                     /\ Fan'.RotationSpeed = sr.body.fanSpeed
                     /\ \A f \in FanFields : context'[f] = Fan'[f] /\ hub'[f] = Fan'[f]
                ELSE UNCHANGED << Fan, Battery, context, hub >>
       /\ \A r \in Motion'.last.resp :
             ~r.threw =>
                IF CodesAccepted(r)
                THEN /\ Motion'.last.op = "refreshed"
                     /\ Motion'.last.body # {}
                     /\ \A body \in Motion'.last.body :
                           /\ Motion'.MotionSensor.MotionDetected = body.moveDetected
                           /\ Motion'.context.MotionDetected = body.moveDetected
                           /\ Motion'.hub.MotionDetected = body.moveDetected
                ELSE /\ Motion'.MotionSensor = Motion.MotionSensor
                     /\ Motion'.LightSensor = Motion.LightSensor
                     /\ Motion'.Battery = Motion.Battery
                     /\ Motion'.context = Motion.context
                     /\ Motion'.hub = Motion.hub]_vars

\* a response with HTTP status 200 and body statusCode 190 was handled
\* after an event had turned the fan on: the fan is still as the event
\* left it
C21_Witness ==
    /\ \E sr \in last.fetch :
          sr.resp.statusCode = 200 /\ sr.resp.bodyStatus = 190 /\ sr.body.power = "off"
    /\ Fan.Active = ACTIVE
    /\ context.Active = ACTIVE

\* the step just taken handled a status request that threw
FetchThrew ==
    \E sr \in last.fetch : sr.resp.threw

\* C22: a step that handles a status request that threw sets the three
\* characteristics of the Fan service to the error marker, leaves this.Fan,
\* this.Battery and the cache as they were, ends that refreshStatus call
\* without throwing, and leaves the refresh interval as it was: in the
\* state it reaches a tick of the interval can start the next refresh.
C22_CaughtInRefresh ==
    /\ [][FetchThrew' =>
             /\ \A f \in FanFields : hub'[f] = ErrorMarker
             /\ UNCHANGED << Fan, Battery, context, periodicPassed >>
             /\ ~last'.threw
             /\ RefreshInFlight' = RefreshInFlight - 1]_vars
    /\ [](FetchThrew => ENABLED PeriodicTickWithin(MaxOverlap))

\* a status request threw after a status body had turned the fan on
C22_Witness ==
    /\ FetchThrew
    /\ Fan.Active = ACTIVE /\ context.Active = ACTIVE
    /\ hub.Active = ErrorMarker

\* C23: a step that handles a webhook event leaves the state field of every
\* field the event omits at its prior value.
C23_OmittedKept ==
    [][\A ctx \in last'.event :
          /\ ctx.powerState = "absent" => Fan'.Active = Fan.Active
          /\ ctx.oscillation = "absent" => Fan'.SwingMode = Fan.SwingMode
          /\ ctx.fanSpeed = undefined => Fan'.RotationSpeed = Fan.RotationSpeed
          /\ ctx.battery = undefined => Battery'.BatteryLevel = Battery.BatteryLevel
          /\ ctx.chargingStatus = "absent" =>
                Battery'.ChargingState = Battery.ChargingState]_vars

\* a dispatch without its history fields
Core(c) ==
    [owner |-> c.owner, transport |-> c.transport, pc |-> c.pc, left |-> c.left,
     cmd |-> c.cmd]

\* C24: a step that handles a webhook event is taken only on a device with
\* the webhook option on; it sends nothing, starts no refresh and no
\* follow-up, arms no debounce timer, leaves the in-flight flag and the
\* dispatches under way as they were; for the Fan and for the Motion
\* accessory (whose only transport activity is its refreshes).
C24_WebhookFrame ==
    [][/\ last'.op = "webhook" =>
             /\ cfg.webhook
             /\ last'.sent = {}
             /\ BagOfAll(Core, cycles') = BagOfAll(Core, cycles)
             /\ UNCHANGED << fanUpdateInProgress, timers, owed, followUps, refreshes,
                             periodicPassed >>
       /\ Motion'.last.op = "webhook" =>
             /\ cfg.webhook
             /\ Motion'.refreshes = Motion.refreshes
             /\ Motion'.Battery = Motion.Battery
             /\ Motion'.LightSensor = Motion.LightSensor]_vars

\* an event was handled while a command was awaiting its response and the
\* flag was up
C24_Witness ==
    /\ last.op = "webhook"
    /\ fanUpdateInProgress
    /\ \E c \in BagToSet(cycles) : c.pc = "power"
    /\ Fan.RotationSpeed = 42

\* StatusLowBattery of B is LOW exactly when its BatteryLevel is below 10
LowExactlyBelowTen(B) ==
    B.StatusLowBattery = (IF B.BatteryLevel < 10 THEN BATTERY_LEVEL_LOW ELSE BATTERY_LEVEL_NORMAL)

\* C25: when a status body has just been reconciled (Fan or Motion), and
\* for whatever advertisement BLEparseStatus of the Motion accessory would
\* be given in this state, StatusLowBattery is LOW exactly when the
\* resulting BatteryLevel is below 10.
C25_LowBelowTen ==
    /\ last.op = "refreshed" => LowExactlyBelowTen(Battery)
    /\ Motion.last.op \in {"refreshed", "scanned"} => LowExactlyBelowTen(Motion.Battery)
    /\ \A v \in BatteryValues :
          LowExactlyBelowTen(
              MotionBLEparseStatus(Motion, [movement |-> JStrue, lightLevel |-> "dark",
                                            battery |-> v]).Battery)

\* a status body with battery 5 has just been reconciled by the Fan
C25_Witness ==
    /\ last.op = "refreshed"
    /\ \E sr \in last.fetch : sr.body.battery = 5
    /\ Battery.BatteryLevel = 5
    /\ Battery.StatusLowBattery = BATTERY_LEVEL_LOW

\* C26: when the payload just handled has no battery field (a status body
\* of the Fan or of the Motion accessory, or a webhook event), BatteryLevel
\* is 100 and the other fields of the payload have been applied.
C26_MissingBatteryIsFull ==
    /\ \A sr \in last.fetch :
          (last.op = "refreshed" /\ sr.body.battery = undefined) =>
              (Battery.BatteryLevel = 100 /\ Fan.RotationSpeed = sr.body.fanSpeed)
    /\ \A body \in Motion.last.body :
          (Motion.last.op = "refreshed" /\ body.battery = undefined) =>
              (Motion.Battery.BatteryLevel = 100
                  /\ Motion.MotionSensor.MotionDetected = body.moveDetected)
    /\ \A ctx \in last.event :
          ctx.battery = undefined =>
              (Battery.BatteryLevel = 100 /\ Fan.Active = PowerOf(ctx.powerState, "ON"))

\* C27: BatteryLevel of the Fan and of the Motion accessory, and the cached
\* BatteryLevel, lie in 0..100 in every state.
C27_BatteryInRange ==
    /\ Battery.BatteryLevel \in 0..100
    /\ context.BatteryLevel \in 0..100
    /\ Motion.Battery.BatteryLevel \in 0..100
    /\ Motion.context.BatteryLevel \in 0..100

\* C28: in the state a setter call leaves, with the debounce timer armed
\* and nothing sent, the onGet handler of the field returns the value the
\* call was given.
C28_ReadYourWrite ==
    [][/\ \A v \in ActiveValues :
             ActiveSet(v) => (onGet(Fan', "Active") = v /\ timers' > 0 /\ last'.sent = {})
       /\ \A v \in SpeedValues :
             RotationSpeedSet(v) =>
                 (onGet(Fan', "RotationSpeed") = v /\ timers' > 0 /\ last'.sent = {})
       /\ \A v \in SwingValues :
             SwingModeSet(v) =>
                 (onGet(Fan', "SwingMode") = v /\ timers' > 0 /\ last'.sent = {})]_vars

\* a setter has stored a speed the cache does not have yet, and the
\* debounce timer has not fired
C28_Witness ==
    /\ timers > 0
    /\ burst.wanted.RotationSpeed = 100
    /\ onGet(Fan, "RotationSpeed") = 100
    /\ context.RotationSpeed # 100

\* the place of a command in the order power, speed, oscillation
CommandRank(cmd) ==
    CASE cmd.command \in {"turnOn", "turnOff"} -> 1
      [] cmd.command = "setWindSpeed" -> 2
      [] cmd.command = "setOscillation" -> 3

\* C29: a step that sends a cloud command either begins the cloud part of
\* a dispatch (on a flush, or on the fallback from BLE), or handles the
\* response to the command the same dispatch had in flight, which is a
\* command of an earlier place in the order power, speed, oscillation;
\* the dispatch never has two commands in flight.
C29_FixedOrder ==
    [][\A s \in last'.sent :
          s.transport = "cloud" =>
             \/ last'.op = "flush" /\ last'.acked = {}
                   /\ BagCardinality(cycles') = BagCardinality(cycles) + 1
             \/ last'.fallback = 1
                   /\ BagCardinality(cycles') = BagCardinality(cycles)
             \/ /\ last'.acked # {}
                /\ \A a \in last'.acked :
                      a.transport = "cloud" /\ CommandRank(a.cmd) < CommandRank(s.cmd)
                /\ BagCardinality(cycles') = BagCardinality(cycles)]_vars

\* setOscillation has just been sent on the response to setWindSpeed
C29_Witness ==
    /\ \E s \in last.sent : s.transport = "cloud" /\ s.cmd.command = "setOscillation"
    /\ \E a \in last.acked : a.transport = "cloud" /\ a.cmd.command = "setWindSpeed"

\* C30: when BLERefreshStatus has returned with a SwitchBot object (the
\* step "scan", which ends the refreshStatus call) no scan session of the
\* accessory is open, and an accessory never has two scan sessions open.
C30_ScanWithinRefresh ==
    /\ last.op = "scan" => refreshes.scan = 0
    /\ Motion.last.op = "scan" => Motion.refreshes.scan = 0
    /\ refreshes.scan <= 1
    /\ Motion.refreshes.scan <= 1

\* the step left a rejected promise that nothing handles: the detached
\* async function of BLERefreshStatus threw (no SwitchBot object to scan
\* with, or no service data to parse) and it has no catch
UnhandledRejection(ev) ==
    ev.op \in {"noConnection", "scanEmpty"}

\* C31: no step of a refresh, a push or a webhook handling of the Fan or of
\* the Motion accessory ends with an error that nothing handles.
C31_NothingEscapes ==
    /\ ~UnhandledRejection(last)
    /\ ~UnhandledRejection(Motion.last)

\* C32: in the state a successful BLE power command leaves, this.Fan.Active
\* is on if the command was turnOn and off if it was turnOff.
C32_ActiveAsSent ==
    \A a \in last.acked :
        a.transport = "ble" /\ a.ok =>
            (Truthy(Fan.Active) <=> a.cmd.command = "turnOn")

\* C33: with the light sensor hidden, no step of the Motion accessory (a
\* refresh over either transport, a webhook event, an error report)
\* dereferences the LightSensor object the constructor did not build.
C33_HiddenUntouched ==
    Motion.hide_lightsensor => ~Motion.last.threw

\* C34: a tick of the refresh interval that starts a refreshStatus call
\* never falls while fanUpdateInProgress is raised (the tick leaves the
\* flag as it found it).
C34_TickSkippedWhileRaised ==
    [][PeriodicTick => ~fanUpdateInProgress]_vars

\* C35: in every state of the Fan, StatusLowBattery is LOW exactly when
\* BatteryLevel is below 10, in this.Battery and in accessory.context.
C35_BatteryAgrees ==
    /\ Battery.StatusLowBattery =
          (IF JSLess(Number(Battery.BatteryLevel), 10) THEN BATTERY_LEVEL_LOW ELSE BATTERY_LEVEL_NORMAL)
    /\ context.StatusLowBattery =
          (IF JSLess(Number(context.BatteryLevel), 10) THEN BATTERY_LEVEL_LOW ELSE BATTERY_LEVEL_NORMAL)

\* C36: in the state a step leaves that sent setWindSpeed or setOscillation
\* to the cloud, this.Fan.Active, the power state the user asked for, is
\* on.
C36_OnlyWhileOn ==
    \A s \in last.sent :
        s.transport = "cloud" /\ s.cmd.command \in {"setWindSpeed", "setOscillation"} =>
            Fan.Active \in {ACTIVE, JStrue}

\* setWindSpeed has just been sent by a flush that had no power command to send
C36_Witness ==
    /\ last.op = "flush"
    /\ \E s \in last.sent : s.transport = "cloud" /\ s.cmd.command = "setWindSpeed"
    /\ Fan.Active = ACTIVE

(***************************************************************************)
(* The flag: the setters, the subscriber of doFanUpdate and what           *)
(* pushChanges starts (the commands and the follow-up refresh), under the  *)
(* assumption that every timer fires and every network or BLE call         *)
(* settles.                                                                *)
(***************************************************************************)
FlagConfigs ==
    Configs \cup HybridConfigs

SetterCall ==
    \/ \E v \in ActiveValues : ActiveSet(v)
    \/ \E v \in SwingValues : SwingModeSet(v)

\* the debounce timer fires
TimerFires ==
    Flush

\* a call a dispatch waits for settles
PushCallSettles ==
    \/ \E c \in BagToSet(cycles), r \in PushResponses : CloudResponse(c, r)
    \/ \E c \in BagToSet(cycles), sw \in ConnectResults : BLEPushConnected(c, sw)
    \/ \E c \in BagToSet(cycles), ok \in BOOLEAN : BLEDiscovered(c, ok)
    \/ \E c \in BagToSet(cycles) : BLEAttemptFailed(c)
    \/ \E c \in BagToSet(cycles) : BLERetry(c)
    \/ \E c \in BagToSet(cycles) : BLEAttemptSucceeded(c)

\* the follow-up refresh and the calls it waits for
FollowUpRuns ==
    \/ FollowUpTick
    \/ \E sr \in StatusResponses : RefreshCloudResponse(sr)
    \/ \E sw \in ConnectResults : RefreshBLEConnected(sw)
    \/ \E sd \in Advertisements : RefreshScanEnd(sd)

NextFlag ==
    \/ SetterCall
    \/ TimerFires
    \/ PushCallSettles
    \/ FollowUpRuns

SpecFlag ==
    /\ InitWith(FlagConfigs)
    /\ [][NextFlag]_vars
    /\ WF_vars(TimerFires)
    /\ WF_vars(PushCallSettles)
    /\ WF_vars(FollowUpRuns)

\* C37: only a setter call raises fanUpdateInProgress, and whenever the
\* flag is raised it is lowered later on (every timer fires and every call
\* settles): after the last setter call the flag is eventually lowered
\* and stays lowered.
C37_FlagLowered ==
    /\ [][~fanUpdateInProgress /\ fanUpdateInProgress' => SetterCall]_vars
    /\ (fanUpdateInProgress ~> ~fanUpdateInProgress)

\* the subscriber has just lowered the flag after pushChanges threw
C37_Witness ==
    /\ last.threw
    /\ \E c \in last.done : c.owner = "sub"
    /\ ~fanUpdateInProgress

\* C38: the step in which pushChanges threw leaves the error marker on the
\* three characteristics of the Fan and the flag lowered; after it a
\* setter can be called (where the bound on pending work allows), a
\* setter call arms the debounce timer, and an armed timer can fire and
\* invoke the subscriber.
C38_CaughtBySubscriber ==
    /\ [](last.threw => /\ \A f \in FanFields : hub[f] = ErrorMarker
                        /\ ~fanUpdateInProgress)
    /\ [](last.threw /\ BagCardinality(cycles) + followUps < MaxPending
            => ENABLED ActiveSet(ACTIVE))
    /\ [][(\E v \in ActiveValues : ActiveSet(v)) => timers' > 0]_vars
    /\ [](timers > 0 => ENABLED Flush)

\* pushChanges has just thrown with no other dispatch and no burst pending
C38_Witness ==
    /\ last.threw
    /\ hub.Active = ErrorMarker
    /\ timers = 0
    /\ cycles = EmptyBag

====
